---- MODULE Spec2Model ----
(***************************************************************************)
(* A model of pyzoom_oauth.py: the Zoom session (authorization URL, OAuth2  *)
(* token pair, code exchange, refresh), the recording listing with its     *)
(* refresh-and-retry, the Recording / RecordingFile objects built from a   *)
(* listing payload and the download of a file or of a whole recording.     *)
(*                                                                         *)
(* Every public method is one action.  The servers (token endpoint,        *)
(* listing endpoint, download host) are the environment: an action draws   *)
(* the response to each request it sends from a small set.  Python strings *)
(* that the code only stores, sends or compares are TLA+ strings; strings  *)
(* the code scans (the redirected URL, a download path, a timestamp) are   *)
(* sequences of one-character strings.  A Python dict is a function whose  *)
(* DOMAIN is the set of its keys.                                          *)
(*                                                                         *)
(* Spec is one session with every method and every answer; SpecSave is the *)
(* downloads with every path; SpecBoth is two sessions side by side.       *)
(***************************************************************************)
EXTENDS Integers, Sequences, FiniteSets, TLC

VARIABLES
    credentials,    \* [session -> [client_id, client_secret, oauth_redirect_uri]]
    access_token,   \* [session -> Zoom.access_token]
    refresh_token,  \* [session -> Zoom.refresh_token]
    held,           \* the list of Recording objects the caller got from its latest get_recordings
    listed_with,    \* history: the access token the session held when `held` was listed
    fs,             \* the local files: [destination path -> content]
    last,           \* history: the latest call, its input, the requests it sent, the files it wrote, its result
    last200         \* history: per session, the latest HTTP 200 answer of the token endpoint

vars == <<credentials, access_token, refresh_token, held, listed_with, fs, last, last200>>

(***************************************************************************)
(* Bounds                                                                  *)
(***************************************************************************)
\* The depth at which Python gives up a recursion (RecursionError), scaled down.
MaxDepth == 3

(***************************************************************************)
(* Characters and strings that the code scans                              *)
(***************************************************************************)
LowerCase == <<"a","b","c","d","e","f","g","h","i","j","k","l","m",
               "n","o","p","q","r","s","t","u","v","w","x","y","z">>
UpperCase == <<"A","B","C","D","E","F","G","H","I","J","K","L","M",
               "N","O","P","Q","R","S","T","U","V","W","X","Y","Z">>
Digits == {"0","1","2","3","4","5","6","7","8","9"}

Range(f) == {f[i] : i \in DOMAIN f}

\* The character class [a-zA-Z0-9_] of the pattern in oauth_receiver.
CodeChars == Range(LowerCase) \cup Range(UpperCase) \cup Digits \cup {"_"}
IsCodeChar(c) == c \in CodeChars

\* str.lower() on one character, then on a string.
LowerChar(c) ==
    IF c \in Range(UpperCase)
    THEN LowerCase[CHOOSE i \in DOMAIN UpperCase : UpperCase[i] = c]
    ELSE c
Lower(str) == [i \in DOMAIN str |-> LowerChar(str[i])]

\* str.endswith(suffix)
EndsWith(str, suffix) ==
    /\ Len(suffix) <= Len(str)
    /\ SubSeq(str, Len(str) - Len(suffix) + 1, Len(str)) = suffix

Min(S) == CHOOSE x \in S : \A y \in S : x <= y
Max(S) == CHOOSE x \in S : \A y \in S : y <= x

(***************************************************************************)
(* Results of a call: a returned value or a raised exception               *)
(***************************************************************************)
Return(kind, val) == [kind |-> kind, val |-> val]
Raise(exc) == [kind |-> "raise", val |-> exc]
ReturnNone == Return("none", "None")
Raised(result) == result.kind = "raise"

\* What a method leaves behind: the session object, the HTTP exchanges it made in
\* order, the result.
Outcome(self, calls, result) == [self |-> self, calls |-> calls, result |-> result]

(***************************************************************************)
(* The sessions                                                            *)
(***************************************************************************)
Sessions == {"z1", "z2"}

\* Zoom.__init__ with the arguments the caller of each session passes.
ZoomInit(client_id, client_secret, oauth_redirect_uri) ==
    [client_id |-> client_id, client_secret |-> client_secret,
     oauth_redirect_uri |-> oauth_redirect_uri]

ConstructorArgs ==
    [z \in Sessions |->
        IF z = "z1" THEN ZoomInit("id1", "secret1", "http://localhost:8080/zoom_login")
                    ELSE ZoomInit("id2", "secret2", "http://localhost:8081/zoom_login")]

\* The object `self` of session z as the methods see it.
Self(z) ==
    [zoom_instance |-> z,
     access_token |-> access_token[z],
     refresh_token |-> refresh_token[z],
     client_id |-> credentials[z].client_id,
     client_secret |-> credentials[z].client_secret,
     oauth_redirect_uri |-> credentials[z].oauth_redirect_uri]

\* Zoom.make_verification: base64 of "client_id:client_secret".
Base64(text) == <<"b64", text>>
make_verification(self) == Base64(<<self.client_id, ":", self.client_secret>>)

(***************************************************************************)
(* The token endpoint                                                      *)
(***************************************************************************)
\* A response of requests: delivered or a transport error; a status; a body that
\* is JSON (the dict json) or not.  body is the text of the body as the tokens it
\* is made of.
Response(status_code, body, json) ==
    [delivered |-> TRUE, status_code |-> status_code, is_json |-> TRUE,
     body |-> body, json |-> json]
NotJsonResponse(status_code) ==
    [delivered |-> TRUE, status_code |-> status_code, is_json |-> FALSE,
     body |-> <<"<html>">>, json |-> [html |-> TRUE]]
TransportError ==
    [delivered |-> FALSE, status_code |-> 0, is_json |-> FALSE,
     body |-> <<>>, json |-> [html |-> FALSE]]

\* The answers of the token endpoint: a token pair, another pair, a 200 body
\* without refresh_token, one without access_token, a 200 body that is no JSON,
\* a refusal, no connection.
TokenPair1 ==
    Response(200, <<"access_token", "refresh_token">>,
             [access_token |-> "a1", refresh_token |-> "r1"])
TokenPair2 ==
    Response(200, <<"access_token", "refresh_token">>,
             [access_token |-> "a2", refresh_token |-> "r2"])
TokenRefusal ==
    Response(400, <<"reason", "error">>,
             [reason |-> "Invalid Token!", error |-> "invalid_grant"])
TokenResponses ==
    {TokenPair1,
     TokenPair2,
     Response(200, <<"access_token">>, [access_token |-> "a2"]),
     Response(200, <<"refresh_token">>, [refresh_token |-> "r2"]),
     NotJsonResponse(200),
     TokenRefusal,
     TransportError}

\* A request as requests sends it.  bearer is the access token it carries ("" when
\* it carries none), token the refresh token, code the authorization code.
Request(endpoint, method, authorization, query, bearer, grant_type, code, token, redirect_uri) ==
    [endpoint |-> endpoint, method |-> method, authorization |-> authorization,
     query |-> query, bearer |-> bearer, grant_type |-> grant_type, code |-> code,
     token |-> token, redirect_uri |-> redirect_uri]

\* One HTTP exchange of a call: the request sent and the response received.
Call(request, response) == [request |-> request, response |-> response]

CodeRequest(self, code) ==
    Request("https://zoom.us/oauth/token", "POST", <<"Basic", make_verification(self)>>,
            <<>>, "", "authorization_code", code, "", self.oauth_redirect_uri)

RefreshRequest(self) ==
    Request("https://zoom.us/oauth/token", "POST", <<"Basic", make_verification(self)>>,
            <<>>, "", "refresh_token", <<>>, self.refresh_token, "")

\* Faulty variant: a code exchange that returns quietly when the status is not 200.
oauth_receiver_code_silent(self, code, response) ==
    LET sent == <<Call(CodeRequest(self, code), response)>>
        js == response.json
    IN  IF response.delivered /\ response.status_code = 200 /\ response.is_json
           /\ {"access_token", "refresh_token"} \subseteq DOMAIN js
        THEN Outcome([self EXCEPT !.access_token = js.access_token,
                                  !.refresh_token = js.refresh_token],
                     sent, ReturnNone)
        ELSE Outcome(self, sent, ReturnNone)

\* Zoom.oauth_receiver_code, given the answer of the token endpoint.
oauth_receiver_code(self, code, response) ==
    LET sent == <<Call(CodeRequest(self, code), response)>>
        js == response.json
    IN  IF ~response.delivered THEN Outcome(self, sent, Raise("ConnectionError"))
        ELSE IF response.status_code = 200 THEN
            IF ~response.is_json THEN Outcome(self, sent, Raise("JSONDecodeError"))
            ELSE IF "access_token" \notin DOMAIN js
                 THEN Outcome(self, sent, Raise("KeyError"))
            ELSE IF "refresh_token" \notin DOMAIN js
                 THEN Outcome([self EXCEPT !.access_token = js.access_token],
                              sent, Raise("KeyError"))
            ELSE Outcome([self EXCEPT !.access_token = js.access_token,
                                      !.refresh_token = js.refresh_token],
                         sent, ReturnNone)
        ELSE Outcome(self, sent, Raise("Exception: Failed to acquire tokens"))

\* Faulty variant: a refresh that stores the new refresh token and forgets the access token.
refresh_access_token_keeps_access(self, response) ==
    LET sent == <<Call(RefreshRequest(self), response)>>
        js == response.json
    IN  IF response.delivered /\ response.status_code = 200 /\ response.is_json
           /\ {"access_token", "refresh_token"} \subseteq DOMAIN js
        THEN Outcome([self EXCEPT !.refresh_token = js.refresh_token],
                     sent, Return("bool", TRUE))
        ELSE Outcome(self, sent, Return("bool", FALSE))

\* Faulty variant: a refresh that drops the stored pair before it looks at the status.
refresh_access_token_eager(self, response) ==
    LET sent == <<Call(RefreshRequest(self), response)>>
        js == response.json
    IN  IF response.delivered /\ response.status_code = 200 /\ response.is_json
           /\ {"access_token", "refresh_token"} \subseteq DOMAIN js
        THEN Outcome([self EXCEPT !.access_token = js.access_token,
                                  !.refresh_token = js.refresh_token],
                     sent, Return("bool", TRUE))
        ELSE Outcome([self EXCEPT !.access_token = "", !.refresh_token = ""],
                     sent, Return("bool", FALSE))

\* Zoom.refresh_access_token, given the answer of the token endpoint: every
\* exception of the body is caught and turned into False.
refresh_access_token(self, response) ==
    LET sent == <<Call(RefreshRequest(self), response)>>
        js == response.json
    IN  IF ~response.delivered THEN Outcome(self, sent, Return("bool", FALSE))
        ELSE IF response.status_code = 200 THEN
            IF ~response.is_json THEN Outcome(self, sent, Return("bool", FALSE))
            ELSE IF "access_token" \notin DOMAIN js
                 THEN Outcome(self, sent, Return("bool", FALSE))
            ELSE IF "refresh_token" \notin DOMAIN js
                 THEN Outcome([self EXCEPT !.access_token = js.access_token],
                              sent, Return("bool", FALSE))
            ELSE Outcome([self EXCEPT !.access_token = js.access_token,
                                      !.refresh_token = js.refresh_token],
                         sent, Return("bool", TRUE))
        ELSE Outcome(self, sent, Return("bool", FALSE))

(***************************************************************************)
(* Zoom.get_oauth_url                                                      *)
(***************************************************************************)
\* A URL as the text before "?" and the key=value pairs after it, in order.
Url(base, query) == [base |-> base, query |-> query]

\* Faulty variant: a get_oauth_url that sends the stored access token as state.
get_oauth_url_with_token(self) ==
    Outcome(self, <<>>,
            Return("str", Url("https://zoom.us/oauth/authorize",
                              <<<<"response_type", "code">>,
                                <<"redirect_uri", self.oauth_redirect_uri>>,
                                <<"client_id", self.client_id>>,
                                <<"state", self.access_token>>>>)))

\* Zoom.get_oauth_url: the URL is built from the attributes, nothing is sent.
get_oauth_url(self) ==
    LET state == ""
    IN  Outcome(self, <<>>,
                Return("str", Url("https://zoom.us/oauth/authorize",
                                  <<<<"response_type", "code">>,
                                    <<"redirect_uri", self.oauth_redirect_uri>>,
                                    <<"client_id", self.client_id>>,
                                    <<"state", state>>>>)))

(***************************************************************************)
(* The redirected URL and Zoom.oauth_receiver                              *)
(***************************************************************************)
Base == <<"h", ":", "/", "z">>
CodeEq == <<"c", "o", "d", "e", "=">>

\* The URLs a caller pastes: with a code, with an error instead of a code, with
\* a parameter whose name only ends in "code", with an empty code, with the code
\* between other parameters, with a code that holds a character outside the class.
RedirectUrls ==
    {Base \o <<"?">> \o CodeEq \o <<"a", "b">>,
     Base \o <<"?", "e", "r", "r", "=", "x">>,
     Base \o <<"?", "x">> \o CodeEq \o <<"a", "b">>,
     Base \o <<"?">> \o CodeEq,
     Base \o <<"?", "s", "=", "1", "&">> \o CodeEq \o <<"a", "_", "1", "&", "t", "=", "2">>,
     Base \o <<"?">> \o CodeEq \o <<"a", "-", "b">>}

\* Whether "code=(?P<code>[a-zA-Z0-9_]+)&?" matches at position i.
MatchesAt(url, i) ==
    /\ i + Len(CodeEq) <= Len(url)
    /\ SubSeq(url, i, i + Len(CodeEq) - 1) = CodeEq
    /\ IsCodeChar(url[i + Len(CodeEq)])

\* The last position of the longest run of class characters that starts at j.
RunEnd(url, j) ==
    Max({k \in j..Len(url) : \A m \in j..k : IsCodeChar(url[m])})

\* re.search(pattern, url): the leftmost match and its group "code", or None.
re_search(url) ==
    LET at == {i \in 1..Len(url) : MatchesAt(url, i)}
    IN  IF at = {} THEN [matched |-> FALSE, code |-> <<>>]
        ELSE LET j == Min(at) + Len(CodeEq)
             IN  [matched |-> TRUE, code |-> SubSeq(url, j, RunEnd(url, j))]

\* Zoom.oauth_receiver: None has no attribute group, otherwise the code is exchanged.
oauth_receiver(self, url, response) ==
    LET match == re_search(url)
    IN  IF ~match.matched
        THEN Outcome(self, <<>>, Raise("AttributeError"))
        ELSE oauth_receiver_code(self, match.code, response)

(***************************************************************************)
(* Listing payloads, Recording.from_json and RecordingFile.from_json       *)
(***************************************************************************)
\* A timestamp of a payload, as its characters: the start and the end of a
\* recording in the format Zoom sends.
GoodStart ==
    <<"2", "0", "2", "1", "-", "0", "3", "-", "0", "4", "T",
      "1", "0", ":", "0", "0", ":", "0", "0", "Z">>
GoodEnd ==
    <<"2", "0", "2", "1", "-", "0", "3", "-", "0", "4", "T",
      "1", "1", ":", "3", "0", ":", "0", "0", "Z">>
\* Timestamps in other shapes: fractional seconds, an offset instead of Z, and
\* one-digit month and day with lower-case t and z.
FractionalTs ==
    <<"2", "0", "2", "1", "-", "0", "3", "-", "0", "4", "T",
      "1", "0", ":", "0", "0", ":", "0", "0", ".", "0", "Z">>
OffsetTs ==
    <<"2", "0", "2", "1", "-", "0", "3", "-", "0", "4", "T",
      "1", "0", ":", "0", "0", ":", "0", "0", "+", "0", "0", ":", "0", "0">>
ShortFieldsTs ==
    <<"2", "0", "2", "1", "-", "3", "-", "4", "t",
      "1", "0", ":", "0", "0", ":", "0", "0", "z">>

DaysIn(Y, m) ==
    IF m \in {4, 6, 9, 11} THEN 30
    ELSE IF m # 2 THEN 31
    ELSE IF (Y % 4 = 0 /\ Y % 100 # 0) \/ Y % 400 = 0 THEN 29 ELSE 28

\* int() of a run of digits.
DigitValue(c) == CHOOSE n \in 0..9 : <<"0", "1", "2", "3", "4", "5", "6", "7", "8", "9">>[n + 1] = c
RECURSIVE Number(_)
Number(run) ==
    IF run = <<>> THEN 0
    ELSE 10 * Number(SubSeq(run, 1, Len(run) - 1)) + DigitValue(run[Len(run)])

\* The ways the regular expression strptime compiles '%Y-%m-%dT%H:%M:%SZ' to
\* matches the whole of ts: %Y is four digits, each other directive one or two
\* digits within its range (seconds up to 61), the letters T and Z match in
\* either case (re.IGNORECASE).  A way is the numbers of its six groups; the
\* groups are the runs of digits before the six characters that are no digits.
RegexMatches(ts) ==
    LET others == {i \in DOMAIN ts : ts[i] \notin Digits}
        ends == [g \in 1..6 |->
                    CHOOSE i \in others : Cardinality({j \in others : j < i}) = g - 1]
        starts == [g \in 1..6 |-> IF g = 1 THEN 1 ELSE ends[g - 1] + 1]
        n == [g \in 1..6 |-> Number(SubSeq(ts, starts[g], ends[g] - 1))]
    IN  IF /\ Cardinality(others) = 6
           /\ ends[6] = Len(ts)
           /\ [g \in 1..6 |-> LowerChar(ts[ends[g]])] = <<"-", "-", "t", ":", ":", "z">>
           /\ ends[1] - starts[1] = 4
           /\ \A g \in 2..6 : ends[g] - starts[g] \in {1, 2}
           /\ n[2] \in 1..12
           /\ n[3] \in 1..31
           /\ n[4] \in 0..23
           /\ n[5] \in 0..59
           /\ n[6] \in 0..61
        THEN {n}
        ELSE {}

\* The matches of the timestamps the payloads hold, computed once.
PayloadTimestamps == {GoodStart, GoodEnd, FractionalTs, OffsetTs, ShortFieldsTs}
MatchesOf == [ts \in PayloadTimestamps |-> RegexMatches(ts)]

\* Whether datetime.strptime(ts, '%Y-%m-%dT%H:%M:%SZ') accepts ts: the regular
\* expression matches and datetime takes the numbers.
MatchesFormat(ts) ==
    \E n \in MatchesOf[ts] :
        /\ n[1] >= 1
        /\ n[3] <= DaysIn(n[1], n[2])
        /\ n[6] <= 59

\* datetime.strptime: the datetime, where the format matches.
strptime(ts) ==
    LET n == CHOOSE n \in MatchesOf[ts] : TRUE
    IN  [year |-> n[1], month |-> n[2], day |-> n[3],
         hour |-> n[4], minute |-> n[5], second |-> n[6]]

FileJson(id, ext, start) ==
    [id |-> id, meeting_id |-> "mtg==", recording_start |-> start,
     recording_end |-> GoodEnd, file_type |-> "MP4", file_extension |-> ext,
     file_size |-> 2048, play_url |-> "https://zoom.us/rec/play/" \o id,
     download_url |-> "https://zoom.us/rec/download/" \o id,
     status |-> "completed", recording_type |-> "shared_screen_with_speaker_view"]

MeetingJson(uuid, start, files) ==
    [uuid |-> uuid, id |-> 8123, account_id |-> "acc", host_id |-> "host",
     topic |-> "Weekly", type |-> 2, start_time |-> start, timezone |-> "Europe/Riga",
     duration |-> 90, total_size |-> 4096, recording_count |-> Len(files),
     share_url |-> "https://zoom.us/rec/share/" \o uuid, recording_files |-> files]

Meeting1 ==
    MeetingJson("u1", GoodStart,
                <<FileJson("f1", <<"M", "P", "4">>, GoodStart),
                  FileJson("f2", <<"M", "4", "A">>, GoodStart)>>)
Meeting2 ==
    MeetingJson("u2", GoodStart,
                <<FileJson("f3", <<"M", "P", "4">>, GoodStart),
                  FileJson("f4", <<"M", "P", "4">>, GoodStart)>>)
MeetingBadFile == MeetingJson("u3", GoodStart, <<FileJson("f4", <<"M", "P", "4">>, FractionalTs)>>)
MeetingBadStart == MeetingJson("u4", OffsetTs, <<>>)
MeetingShortFields == MeetingJson("u5", ShortFieldsTs, <<>>)

FileKeys ==
    <<"id", "meeting_id", "recording_start", "recording_end", "file_type",
      "file_extension", "file_size", "play_url", "download_url", "status",
      "recording_type">>
RecordingKeys ==
    <<"uuid", "id", "account_id", "host_id", "topic", "type", "start_time",
      "timezone", "duration", "total_size", "recording_count", "share_url",
      "recording_files">>

\* The exception reading the keys in order raises, "" when none: a missing key is
\* a KeyError, a timestamp that does not match the format a ValueError.
RECURSIVE ReadKeys(_, _, _, _)
ReadKeys(js, keys, timestamps, i) ==
    IF i > Len(keys) THEN ""
    ELSE IF keys[i] \notin DOMAIN js THEN "KeyError"
    ELSE IF keys[i] \in timestamps /\ ~MatchesFormat(js[keys[i]]) THEN "ValueError"
    ELSE ReadKeys(js, keys, timestamps, i + 1)

\* RecordingFile.from_json: the object, or the exception raised.
RecordingFile_from_json(js, zoom_instance) ==
    LET exc == ReadKeys(js, FileKeys, {"recording_start", "recording_end"}, 1)
    IN  IF exc # "" THEN Raise(exc)
        ELSE Return("RecordingFile",
               [id |-> js.id, meeting_id |-> js.meeting_id,
                recording_start |-> strptime(js.recording_start),
                recording_end |-> strptime(js.recording_end),
                file_type |-> js.file_type, file_extension |-> js.file_extension,
                file_size |-> js.file_size, play_url |-> js.play_url,
                download_url |-> js.download_url, status |-> js.status,
                recording_type |-> js.recording_type,
                zoom_instance |-> zoom_instance])

\* The loop of Recording.from_json over js['recording_files'], from file i on:
\* the list appended to so far, or the first exception.
RECURSIVE AppendFiles(_, _, _, _)
AppendFiles(files, zoom_instance, i, done) ==
    IF i > Len(files) THEN Return("list", done)
    ELSE LET f == RecordingFile_from_json(files[i], zoom_instance)
         IN  IF Raised(f) THEN f
             ELSE AppendFiles(files, zoom_instance, i + 1, Append(done, f.val))

\* Faulty variant: a from_json that puts each file before the ones it has.
Recording_from_json_prepending(js, zoom_instance) ==
    LET exc == ReadKeys(js, RecordingKeys, {"start_time"}, 1)
        files == AppendFiles(js.recording_files, zoom_instance, 1, <<>>)
    IN  IF exc # "" THEN Raise(exc)
        ELSE IF Raised(files) THEN files
        ELSE Return("Recording",
               [uuid |-> js.uuid, id |-> js.id, account_id |-> js.account_id,
                host_id |-> js.host_id, topic |-> js.topic, type |-> js.type,
                start_time |-> strptime(js.start_time), timezone |-> js.timezone,
                duration |-> js.duration, total_size |-> js.total_size,
                recording_count |-> js.recording_count, share_url |-> js.share_url,
                recording_files |-> [i \in DOMAIN files.val |->
                                        files.val[Len(files.val) + 1 - i]],
                zoom_instance |-> zoom_instance])

\* Recording.from_json: the object, or the exception raised.
Recording_from_json(js, zoom_instance) ==
    LET exc == ReadKeys(js, RecordingKeys, {"start_time"}, 1)
        files == AppendFiles(js.recording_files, zoom_instance, 1, <<>>)
    IN  IF exc # "" THEN Raise(exc)
        ELSE IF Raised(files) THEN files
        ELSE Return("Recording",
               [uuid |-> js.uuid, id |-> js.id, account_id |-> js.account_id,
                host_id |-> js.host_id, topic |-> js.topic, type |-> js.type,
                start_time |-> strptime(js.start_time), timezone |-> js.timezone,
                duration |-> js.duration, total_size |-> js.total_size,
                recording_count |-> js.recording_count, share_url |-> js.share_url,
                recording_files |-> files.val, zoom_instance |-> zoom_instance])

(***************************************************************************)
(* The listing endpoint and Zoom.get_recordings_raw / Zoom.get_recordings  *)
(***************************************************************************)
ExpiryPhrase == <<"Access", "token", "is", "expired">>

\* Messages of error payloads, as the words they are made of.
ExpiredMessage == <<"Access", "token", "is", "expired", ".">>
InvalidMessage == <<"Invalid", "access", "token", ".">>

ListingWithoutMeetings == Response(200, <<"total_records">>, [total_records |-> 0])

ListingOfTwoMeetings ==
    Response(200, <<"total_records", "meetings">>,
             [total_records |-> 2, meetings |-> <<Meeting1, Meeting2>>])

ListingResponses ==
    {ListingOfTwoMeetings,
     Response(200, <<"total_records", "meetings">>,
              [total_records |-> 2, meetings |-> <<Meeting1, MeetingBadFile>>]),
     Response(200, <<"total_records", "meetings">>,
              [total_records |-> 1, meetings |-> <<MeetingBadStart>>]),
     Response(200, <<"total_records", "meetings">>,
              [total_records |-> 1, meetings |-> <<MeetingShortFields>>]),
     ListingWithoutMeetings,
     Response(401, <<"code", "message">>, [code |-> 124, message |-> ExpiredMessage]),
     Response(401, <<"code", "message">>, [code |-> 124, message |-> InvalidMessage]),
     NotJsonResponse(502),
     TransportError}

\* The dates a caller passes: the defaults, or an empty string for no bound.
DefaultStart == "2021-01-01"
DefaultEnd == "2050-01-01"
StartDates == {DefaultStart, ""}
EndDates == {DefaultEnd, ""}

\* The query string get_recordings_raw builds, as its key=value pairs in order.
ListingQuery(start_date, end_date, page_size) ==
    (IF start_date # "" THEN <<<<"from", start_date>>>> ELSE <<>>)
    \o (IF end_date # "" THEN <<<<"from", end_date>>>> ELSE <<>>)
    \o (IF start_date # "" THEN <<<<"page_size", page_size>>>> ELSE <<>>)

ListingUrl == "https://api.zoom.us/v2/users/me/recordings"

ListingRequest(self, start_date, end_date, page_size) ==
    Request(ListingUrl, "GET",
            <<"Bearer", self.access_token>>,
            ListingQuery(start_date, end_date, page_size),
            self.access_token, "", <<>>, "", "")

\* Python values of the two string types: a str never equals a bytes.
PyStr(text) == [type |-> "str", text |-> text]
PyBytes(text) == [type |-> "bytes", text |-> text]

\* Iterating a requests.Response yields its body in chunks, each a bytes.
iter_content(response) == [i \in DOMAIN response.body |-> PyBytes(response.body[i])]

\* needle in iterable, for an object that defines __iter__ and no __contains__.
PyIn(needle, iterable) == \E i \in DOMAIN iterable : iterable[i] = needle

\* needle in text, for two str: text holds needle as a substring.
StrIn(needle, text) ==
    \E i \in 0..(Len(text) - Len(needle)) : SubSeq(text, i + 1, i + Len(needle)) = needle

\* Faulty variant: the test made on the parsed body, 'message' in response_json.
MessageInResponseJson(response) == "message" \in DOMAIN response.json

\* The first conjunct of the condition of get_recordings_raw: 'message' in response.
MessageInResponse(response) == PyIn(PyStr("message"), iter_content(response))

\* Zoom.get_recordings_raw, given the answer to its listing request: the set of
\* ways the call can go, one per choice of the answers to the requests that
\* follow.  depth counts the frames of the recursion.
RECURSIVE get_recordings_raw(_, _, _, _, _, _)
get_recordings_raw(self, start_date, end_date, page_size, depth, response) ==
    LET calls == <<Call(ListingRequest(self, start_date, end_date, page_size), response)>>
        js == response.json
        Retry(refresh) ==
            IF depth + 1 >= MaxDepth
            THEN {Outcome(refresh.self, calls \o refresh.calls, Raise("RecursionError"))}
            ELSE UNION {
                   {Outcome(o.self, calls \o refresh.calls \o o.calls, o.result) :
                      o \in get_recordings_raw(refresh.self, start_date, end_date,
                                               page_size, depth + 1, again)}
                   : again \in ListingResponses }
    IN  IF ~response.delivered THEN {Outcome(self, calls, Raise("ConnectionError"))}
        ELSE IF ~response.is_json THEN {Outcome(self, calls, Raise("JSONDecodeError"))}
        ELSE IF MessageInResponse(response) /\ "message" \notin DOMAIN js
             THEN {Outcome(self, calls, Raise("KeyError"))}
        ELSE IF MessageInResponse(response) /\ StrIn(ExpiryPhrase, js.message)
             THEN UNION {
                    LET refresh == refresh_access_token(self, answer)
                    IN  IF refresh.result.val
                        THEN Retry(refresh)
                        ELSE {Outcome(refresh.self, calls \o refresh.calls,
                                      Return("dict", js))}
                    : answer \in TokenResponses }
        ELSE {Outcome(self, calls, Return("dict", js))}

\* The loop of get_recordings over recording_json['meetings'], from meeting i on.
RECURSIVE AppendRecordings(_, _, _, _)
AppendRecordings(meetings, zoom_instance, i, done) ==
    IF i > Len(meetings) THEN Return("list", done)
    ELSE LET r == Recording_from_json(meetings[i], zoom_instance)
         IN  IF Raised(r) THEN r
             ELSE AppendRecordings(meetings, zoom_instance, i + 1, Append(done, r.val))

\* Faulty variant: a get_recordings that returns the recordings it built before
\* one failed.
RecordingsOfPartial(recording_json, zoom_instance) ==
    IF "meetings" \in DOMAIN recording_json
    THEN LET Built(n) == AppendRecordings(SubSeq(recording_json.meetings, 1, n),
                                          zoom_instance, 1, <<>>)
         IN  Built(Max({n \in 0..Len(recording_json.meetings) : ~Raised(Built(n))}))
    ELSE Return("list", <<>>)

\* Faulty variant: a get_recordings that reads recording_json['meetings'] unguarded.
RecordingsOfStrict(recording_json, zoom_instance) ==
    IF "meetings" \in DOMAIN recording_json
    THEN AppendRecordings(recording_json.meetings, zoom_instance, 1, <<>>)
    ELSE Raise("KeyError")

\* The part of get_recordings after get_recordings_raw returned recording_json.
RecordingsOf(recording_json, zoom_instance) ==
    IF "meetings" \in DOMAIN recording_json
    THEN AppendRecordings(recording_json.meetings, zoom_instance, 1, <<>>)
    ELSE Return("list", <<>>)

\* Zoom.get_recordings, given the answer to its first listing request: the set
\* of ways the call can go.
get_recordings(self, start_date, end_date, page_size, response) ==
    {Outcome(o.self, o.calls,
             IF Raised(o.result) THEN o.result
             ELSE RecordingsOf(o.result.val, self.zoom_instance)) :
        o \in get_recordings_raw(self, start_date, end_date, page_size, 0, response)}

(***************************************************************************)
(* RecordingFile.save                                                      *)
(***************************************************************************)
\* The paths a caller passes: as in example.py, and one without a directory.
ExamplePath == <<".", "/", "d", "/", "c">>
SavePaths ==
    {ExamplePath,
     <<"c">>}

\* Paths that already end with an extension, in lower and in upper case.
ExtensionPaths ==
    {<<".", "/", "d", "/", "c", ".", "m", "p", "4">>,
     <<".", "/", "d", "/", "c", ".", "M", "P", "4">>}

\* The download host's answers: the whole file, a refusal, no connection.  (A
\* connection that breaks after a chunk has complete = FALSE.)
DownloadResponse(delivered, status_code, chunks, complete) ==
    [delivered |-> delivered, status_code |-> status_code, chunks |-> chunks,
     complete |-> complete]
DownloadResponses ==
    {DownloadResponse(TRUE, 200, <<"chunk1", "chunk2">>, TRUE),
     DownloadResponse(TRUE, 401, <<>>, TRUE),
     DownloadResponse(FALSE, 0, <<>>, FALSE)}

\* Faulty variant: a file that keeps the token its session held when it was listed.
DownloadTokenAtListing(file) == listed_with

\* The token RecordingFile.save appends to download_url, read from the session
\* the file refers to at the time of the call.
DownloadToken(file) == access_token[file.zoom_instance]

DownloadRequest(file) ==
    Request(file.download_url, "GET", <<"query", DownloadToken(file)>>,
            <<<<"access_token", DownloadToken(file)>>>>,
            DownloadToken(file), "", <<>>, "", "")

\* The path save writes to: the extension is appended unless the path ends with it.
Destination(file, path) ==
    IF ~EndsWith(path, Lower(file.file_extension))
    THEN path \o <<".">> \o Lower(file.file_extension)
    ELSE path

\* '/'.join(path.split('/')[:-1]): the path up to its last slash, '' without one.
DirName(path) ==
    LET slashes == {i \in DOMAIN path : path[i] = "/"}
    IN  IF slashes = {} THEN <<>> ELSE SubSeq(path, 1, Max(slashes) - 1)

WriteFile(files, path, content) ==
    [p \in DOMAIN files \cup {path} |-> IF p = path THEN content ELSE files[p]]

\* What a save leaves behind: the local files, the HTTP exchanges it made, the
\* destinations it opened for writing, in order, and the result.
Saved(files, calls, wrote, result) ==
    [files |-> files, calls |-> calls, wrote |-> wrote, result |-> result]

\* Faulty variant: a save that asks for new tokens when the download is refused.
RecordingFile_save_refreshing(file, path, files, response) ==
    LET dest == Destination(file, path)
        calls == <<Call(DownloadRequest(file), response)>>
        self == [zoom_instance |-> file.zoom_instance,
                 access_token |-> access_token[file.zoom_instance],
                 refresh_token |-> refresh_token[file.zoom_instance],
                 client_id |-> credentials[file.zoom_instance].client_id,
                 client_secret |-> credentials[file.zoom_instance].client_secret,
                 oauth_redirect_uri |-> credentials[file.zoom_instance].oauth_redirect_uri]
    IN  IF DirName(dest) = <<>>
        THEN Saved(files, <<>>, <<>>, Raise("FileNotFoundError"))
        ELSE IF ~response.delivered
        THEN Saved(files, calls, <<>>, Raise("ConnectionError"))
        ELSE IF response.status_code >= 400
        THEN Saved(files, calls \o <<Call(RefreshRequest(self), TokenRefusal)>>, <<>>,
                   Raise("HTTPError"))
        ELSE Saved(WriteFile(files, dest, response.chunks), calls, <<dest>>,
                   IF response.complete THEN ReturnNone
                   ELSE Raise("ChunkedEncodingError"))

\* Faulty variant: a save that opens the destination before it looks at the status.
RecordingFile_save_opening_first(file, path, files, response) ==
    LET dest == Destination(file, path)
        calls == <<Call(DownloadRequest(file), response)>>
    IN  IF DirName(dest) = <<>>
        THEN Saved(files, <<>>, <<>>, Raise("FileNotFoundError"))
        ELSE IF ~response.delivered
        THEN Saved(files, calls, <<>>, Raise("ConnectionError"))
        ELSE IF response.status_code >= 400
        THEN Saved(WriteFile(files, dest, <<>>), calls, <<dest>>, Raise("HTTPError"))
        ELSE Saved(WriteFile(files, dest, response.chunks), calls, <<dest>>,
                   IF response.complete THEN ReturnNone
                   ELSE Raise("ChunkedEncodingError"))

\* RecordingFile.save, given the answer of the download host.
RecordingFile_save(file, path, files, response) ==
    LET dest == Destination(file, path)
        calls == <<Call(DownloadRequest(file), response)>>
    IN  IF DirName(dest) = <<>>
        THEN Saved(files, <<>>, <<>>, Raise("FileNotFoundError"))
        ELSE IF ~response.delivered
        THEN Saved(files, calls, <<>>, Raise("ConnectionError"))
        ELSE IF response.status_code >= 400
        THEN Saved(files, calls, <<>>, Raise("HTTPError"))
        ELSE Saved(WriteFile(files, dest, response.chunks), calls, <<dest>>,
                   IF response.complete THEN ReturnNone
                   ELSE Raise("ChunkedEncodingError"))

\* The loop of Recording.save over self.recording_files, from file i on:
\* responses[i] answers the download of file i, the first exception ends the loop.
RECURSIVE SaveFiles(_, _, _, _, _)
SaveFiles(recording_files, path, responses, i, done) ==
    IF i > Len(recording_files) THEN done
    ELSE LET o == RecordingFile_save(recording_files[i], path, done.files, responses[i])
             now == Saved(o.files, done.calls \o o.calls, done.wrote \o o.wrote, o.result)
         IN  IF Raised(o.result) THEN now
             ELSE SaveFiles(recording_files, path, responses, i + 1, now)

\* Recording.save: the directory of path is made, then every file is saved to path.
Recording_save(recording, path, files, responses) ==
    IF DirName(path) = <<>>
    THEN Saved(files, <<>>, <<>>, Raise("FileNotFoundError"))
    ELSE SaveFiles(recording.recording_files, path, responses, 1,
                   Saved(files, <<>>, <<>>, ReturnNone))

(***************************************************************************)
(* The state machine                                                       *)
(***************************************************************************)
NoGrant == [complete |-> FALSE, status |-> "none", access_token |-> "", refresh_token |-> ""]

\* The latest HTTP 200 answer of the token endpoint among calls, else before.
Latest200(calls, before) ==
    LET at == {i \in DOMAIN calls :
                 /\ calls[i].request.grant_type # ""
                 /\ calls[i].response.delivered
                 /\ calls[i].response.status_code = 200}
        js == calls[Max(at)].response.json
    IN  IF at = {} THEN before
        ELSE IF calls[Max(at)].response.is_json
                /\ {"access_token", "refresh_token"} \subseteq DOMAIN js
        THEN [complete |-> TRUE, status |-> "200", access_token |-> js.access_token,
              refresh_token |-> js.refresh_token]
        ELSE [complete |-> FALSE, status |-> "200", access_token |-> "", refresh_token |-> ""]

\* Two sessions are constructed; the download directory holds a file of an
\* earlier run.
Init ==
    /\ credentials = ConstructorArgs
    /\ access_token = [z \in Sessions |-> ""]
    /\ refresh_token = [z \in Sessions |-> ""]
    /\ held = <<>>
    /\ listed_with = ""
    /\ fs = [p \in {<<".", "/", "d", "/", "c", ".", "m", "p", "4">>} |-> <<"old">>]
    /\ last = [op |-> "__init__", z |-> "z1", input |-> <<>>, calls |-> <<>>,
               wrote |-> <<>>, result |-> ReturnNone]
    /\ last200 = [z \in Sessions |-> NoGrant]

\* Faulty variant: tokens kept on the class, one pair for every instance.
SessionCallShared(z, op, input, o) ==
    /\ access_token' = [s \in Sessions |-> o.self.access_token]
    /\ refresh_token' = [s \in Sessions |-> o.self.refresh_token]
    /\ last' = [op |-> op, z |-> z, input |-> input, calls |-> o.calls,
                wrote |-> <<>>, result |-> o.result]
    /\ last200' = [last200 EXCEPT ![z] = Latest200(o.calls, last200[z])]
    /\ UNCHANGED credentials

\* The effect of a method of session z that went the way o.
SessionCall(z, op, input, o) ==
    /\ access_token' = [access_token EXCEPT ![z] = o.self.access_token]
    /\ refresh_token' = [refresh_token EXCEPT ![z] = o.self.refresh_token]
    /\ last' = [op |-> op, z |-> z, input |-> input, calls |-> o.calls,
                wrote |-> <<>>, result |-> o.result]
    /\ last200' = [last200 EXCEPT ![z] = Latest200(o.calls, last200[z])]
    /\ UNCHANGED credentials

\* The answers drawn for the exchange oauth_receiver hands to oauth_receiver_code
\* (OauthReceiverCode draws every answer): the second pair, and a refusal.
ReceiverResponses == {TokenPair2, TokenRefusal}

GetOauthUrl(z) ==
    \E o \in {get_oauth_url(Self(z))} :
        /\ SessionCall(z, "get_oauth_url", <<>>, o)
        /\ UNCHANGED <<held, listed_with, fs>>

OauthReceiver(z) ==
    \E url \in RedirectUrls :
        \E response \in (IF re_search(url).matched THEN ReceiverResponses ELSE {TransportError}) :
            \E o \in {oauth_receiver(Self(z), url, response)} :
                /\ SessionCall(z, "oauth_receiver", url, o)
                /\ UNCHANGED <<held, listed_with, fs>>

OauthReceiverCode(z, answers) ==
    \E code \in {<<"x", "y", "z">>}, response \in answers :
        \E o \in {oauth_receiver_code(Self(z), code, response)} :
            /\ SessionCall(z, "oauth_receiver_code", code, o)
            /\ UNCHANGED <<held, listed_with, fs>>

RefreshAccessToken(z, answers) ==
    \E response \in answers :
        \E o \in {refresh_access_token(Self(z), response)} :
            /\ SessionCall(z, "refresh_access_token", <<>>, o)
            /\ UNCHANGED <<held, listed_with, fs>>

\* Every answer to the default dates, and every combination of dates.
RawInputs ==
    {<<DefaultStart, DefaultEnd, response>> : response \in ListingResponses}
    \cup {<<start_date, end_date, ListingWithoutMeetings>> :
             start_date \in StartDates, end_date \in EndDates}

GetRecordingsRaw(z) ==
    \E in \in RawInputs :
        \E o \in get_recordings_raw(Self(z), in[1], in[2], 300, 0, in[3]) :
            /\ SessionCall(z, "get_recordings_raw",
                           [start_date |-> in[1], end_date |-> in[2], page_size |-> 300], o)
            /\ UNCHANGED <<held, listed_with, fs>>

\* recordings = zoom.get_recordings(), with the default arguments as in example.py:
\* the caller holds the list if one is returned.
GetRecordings(z, answers) ==
    \E response \in answers :
        \E o \in get_recordings(Self(z), DefaultStart, DefaultEnd, 300, response) :
            /\ SessionCall(z, "get_recordings",
                           [start_date |-> DefaultStart, end_date |-> DefaultEnd,
                            page_size |-> 300], o)
            /\ held' = IF Raised(o.result) THEN held ELSE o.result.val
            /\ listed_with' = IF Raised(o.result) THEN listed_with ELSE o.self.access_token
            /\ UNCHANGED fs

\* The files of the recordings the caller holds.
HeldFiles == UNION {Range(held[i].recording_files) : i \in DOMAIN held}

RecordingFileSave(paths) ==
    \E file \in HeldFiles, path \in paths, response \in DownloadResponses :
        \E o \in {RecordingFile_save(file, path, fs, response)} :
            /\ fs' = o.files
            /\ last' = [op |-> "RecordingFile.save", z |-> file.zoom_instance,
                        input |-> [path |-> path, file_extension |-> file.file_extension],
                        calls |-> o.calls, wrote |-> o.wrote, result |-> o.result]
            /\ UNCHANGED <<credentials, access_token, refresh_token, held, listed_with, last200>>

\* recording.save(path) on a recording the caller holds, as in example.py with
\* the whole recording instead of one file.
RecordingSave(paths, answers) ==
    \E r \in DOMAIN held, path \in paths :
        \E responses \in [DOMAIN held[r].recording_files -> answers] :
            \E o \in {Recording_save(held[r], path, fs, responses)} :
                /\ fs' = o.files
                /\ last' = [op |-> "Recording.save", z |-> held[r].zoom_instance,
                            input |-> [path |-> path, recording |-> r],
                            calls |-> o.calls, wrote |-> o.wrote, result |-> o.result]
                /\ UNCHANGED <<credentials, access_token, refresh_token, held,
                               listed_with, last200>>

\* The session the caller works with, as in example.py; the other instance is
\* constructed beside it and left alone.
Callers == {"z1"}

\* The answers drawn for the downloads of recording.save (RecordingFileSave
\* draws every answer): the whole file, and a refusal.
DownloadedOrRefused == {r \in DownloadResponses : r.delivered}

Next ==
    \/ \E z \in Callers : GetOauthUrl(z)
    \/ \E z \in Callers : OauthReceiver(z)
    \/ \E z \in Callers : OauthReceiverCode(z, TokenResponses)
    \/ \E z \in Callers : RefreshAccessToken(z, TokenResponses)
    \/ \E z \in Callers : GetRecordingsRaw(z)
    \/ \E z \in Callers : GetRecordings(z, ListingResponses)
    \/ RecordingFileSave(SavePaths)
    \/ RecordingSave({ExamplePath}, DownloadedOrRefused)

Spec == Init /\ [][Next]_vars

\* The downloads alone, on the recordings of a good listing, with every path
\* and every answer of the download host.
NextSave ==
    \/ \E z \in Callers : GetRecordings(z, {ListingOfTwoMeetings})
    \/ RecordingFileSave(SavePaths \cup ExtensionPaths)
    \/ RecordingSave(SavePaths \cup ExtensionPaths, DownloadResponses)

SpecSave == Init /\ [][NextSave]_vars

\* Two sessions in one process, each exchanging a code, refreshing, listing and
\* downloading; the token endpoint grants or refuses.
NextBoth ==
    \/ \E z \in Sessions : OauthReceiverCode(z, {TokenPair1, TokenRefusal})
    \/ \E z \in Sessions : RefreshAccessToken(z, {TokenPair2, TokenRefusal})
    \/ \E z \in Sessions : GetRecordings(z, {ListingOfTwoMeetings})
    \/ RecordingFileSave({ExamplePath})

SpecBoth == Init /\ [][NextBoth]_vars

(***************************************************************************)
(* Properties                                                              *)
(***************************************************************************)
ListingOps == {"get_recordings", "get_recordings_raw"}
ExchangeOps == {"oauth_receiver", "oauth_receiver_code"}

IsListing(call) == call.request.endpoint = ListingUrl
IsRefresh(call) == call.request.grant_type = "refresh_token"
IsDownload(call) == call.request.authorization[1] = "query"
Indices(calls, Is(_)) == {i \in DOMAIN calls : Is(calls[i])}

\* The response carries a message that holds the expiry phrase.
ExpirySignalled(response) ==
    /\ response.delivered
    /\ response.is_json
    /\ "message" \in DOMAIN response.json
    /\ StrIn(ExpiryPhrase, response.json.message)

\* The response is an HTTP 200 whose body holds the token pair.
CompletePair(response) ==
    /\ response.delivered
    /\ response.status_code = 200
    /\ response.is_json
    /\ {"access_token", "refresh_token"} \subseteq DOMAIN response.json

\* The latest call was a listing whose first answer signalled token expiry.
ListingGotExpiry ==
    /\ last.op \in ListingOps
    /\ last.calls # <<>>
    /\ ExpirySignalled(last.calls[1].response)

\* C1: a listing call whose response signals token expiry makes exactly one
\* refresh attempt and, when that refresh succeeds, exactly one retried listing
\* request (two listing requests in all).
C1_ExpiryRefreshedAndRetriedOnce ==
    ListingGotExpiry =>
        /\ Cardinality(Indices(last.calls, IsRefresh)) = 1
        /\ \A i \in Indices(last.calls, IsRefresh) :
              CompletePair(last.calls[i].response)
                  => Cardinality(Indices(last.calls, IsListing)) = 2

C4_Step ==
    LET z == last'.z
        calls == last'.calls
    IN  /\ (last'.op \in ExchangeOps \cup {"refresh_access_token"}
            /\ calls # <<>> /\ CompletePair(calls[1].response)) =>
               /\ ~Raised(last'.result)
               /\ last'.op = "refresh_access_token" => last'.result.val
               /\ access_token'[z] = calls[1].response.json.access_token
               /\ refresh_token'[z] = calls[1].response.json.refresh_token
        /\ \A i \in Indices(calls, IsListing) \cup Indices(calls, IsDownload) :
               LET grant == Latest200(SubSeq(calls, 1, i - 1), last200[z])
               IN  grant.complete => calls[i].request.bearer = grant.access_token

\* C4: a refresh or code exchange answered by an HTTP 200 with the token pair
\* succeeds and leaves both stored tokens equal to the values of the response; and
\* every listing or download request sent while that answer is the session's
\* latest HTTP 200 token answer carries its access token, so the token it
\* replaced is not sent.
C4_NewTokenCarried == [][C4_Step]_vars

\* A file listed under one access token is downloaded after a later grant, and
\* the request carries the token of that grant.
C4_Witness ==
    /\ last.op = "RecordingFile.save"
    /\ last.calls # <<>>
    /\ last200[last.z].complete
    /\ last.calls[1].request.bearer = last200[last.z].access_token
    /\ listed_with \notin {"", last200[last.z].access_token}

\* One step of C5, on the call the step makes.
C5_Step ==
    (/\ last'.op = "refresh_access_token"
     /\ \/ ~last'.calls[1].response.delivered
        \/ last'.calls[1].response.status_code # 200) =>
        /\ last'.result = Return("bool", FALSE)
        /\ access_token' = access_token
        /\ refresh_token' = refresh_token

\* C5: a refresh_access_token that the token endpoint answers with a status other
\* than 200, or whose request the transport fails, returns False (it does not
\* raise) and leaves access_token and refresh_token as they were.
C5_FailedRefreshKeepsTokens == [][C5_Step]_vars

\* A session that holds a token pair had its refresh refused.
C5_Witness ==
    /\ last.op = "refresh_access_token"
    /\ last.calls[1].response = TokenRefusal
    /\ last.result = Return("bool", FALSE)
    /\ access_token[last.z] # ""
    /\ refresh_token[last.z] # ""

\* One step of C6, on the call the step makes.
C6_Step ==
    (/\ last'.op \in ExchangeOps
     /\ last'.calls # <<>>
     /\ last'.calls[1].response.delivered
     /\ last'.calls[1].response.status_code # 200) =>
        /\ last'.result = Raise("Exception: Failed to acquire tokens")
        /\ access_token' = access_token
        /\ refresh_token' = refresh_token

\* C6: a code exchange that the token endpoint answers with a status other than
\* 200 raises the error "Failed to acquire tokens" and leaves the stored pair as
\* it was.
C6_RefusedExchangeKeepsTokens == [][C6_Step]_vars

\* A session that holds a token pair had a code exchange refused.
C6_Witness ==
    /\ last.op \in ExchangeOps
    /\ last.calls # <<>>
    /\ last.calls[1].response = TokenRefusal
    /\ Raised(last.result)
    /\ access_token[last.z] # ""
    /\ refresh_token[last.z] # ""

\* The URL has a query parameter named code.
HasCodeParameter(url) ==
    \E p \in 2..Len(url) :
        /\ url[p - 1] \in {"?", "&"}
        /\ p + Len(CodeEq) - 1 <= Len(url)
        /\ SubSeq(url, p, p + Len(CodeEq) - 1) = CodeEq

\* C7: oauth_receiver on a URL without a code parameter raises before it sends
\* any request to the token endpoint.
C7_NoCodeParameterFailsFast ==
    (last.op = "oauth_receiver" /\ ~HasCodeParameter(last.input)) =>
        /\ Raised(last.result)
        /\ last.calls = <<>>

\* C8: a get_recordings whose listing request fails otherwise than by token
\* expiry (a status other than 200, or no response) raises an error.
C8_ListingFailureSurfaces ==
    (/\ last.op = "get_recordings"
     /\ last.calls # <<>>
     /\ \/ ~last.calls[Len(last.calls)].response.delivered
        \/ last.calls[Len(last.calls)].response.status_code # 200
     /\ ~ExpirySignalled(last.calls[Len(last.calls)].response)) =>
        Raised(last.result)

\* C9: the download request of RecordingFile.save carries the access token the
\* file's session holds when save is called.
C9_DownloadCarriesCurrentToken ==
    last.op = "RecordingFile.save" =>
        \A i \in DOMAIN last.calls :
            /\ IsDownload(last.calls[i])
            /\ last.calls[i].request.bearer = access_token[last.z]
            /\ last.calls[i].request.query = <<<<"access_token", access_token[last.z]>>>>

\* A file is downloaded after its session's access token changed since the
\* listing.
C9_Witness ==
    /\ last.op = "RecordingFile.save"
    /\ last.calls # <<>>
    /\ listed_with # ""
    /\ listed_with # access_token[last.z]

\* C10: a get_recordings whose listing response is a JSON body without the key
\* meetings returns the empty list, which the caller then holds.
C10_NoMeetingsKeyGivesEmptyList ==
    (/\ last.op = "get_recordings"
     /\ last.calls # <<>>
     /\ last.calls[Len(last.calls)].response.delivered
     /\ last.calls[Len(last.calls)].response.is_json
     /\ "meetings" \notin DOMAIN last.calls[Len(last.calls)].response.json) =>
        /\ last.result = Return("list", <<>>)
        /\ held = <<>>

\* get_recordings got a 200 body without meetings and returned the empty list.
C10_Witness ==
    /\ last.op = "get_recordings"
    /\ last.calls # <<>>
    /\ last.calls[1].response = ListingWithoutMeetings
    /\ last.result = Return("list", <<>>)

\* C11: every listing request carries the start date under from, the end date
\* under to, and page_size, whichever of the two dates are empty (an empty date
\* is the empty value of its parameter or leaves its parameter out).
C11_ListingQueryCarriesFromToPageSize ==
    last.op \in ListingOps =>
        \A i \in Indices(last.calls, IsListing) :
            LET query == last.calls[i].request.query
                Values(key) == {query[k][2] : k \in {n \in DOMAIN query : query[n][1] = key}}
            IN  /\ Values("from") \subseteq {last.input.start_date}
                /\ last.input.start_date # "" => Values("from") # {}
                /\ Values("to") \subseteq {last.input.end_date}
                /\ last.input.end_date # "" => Values("to") # {}
                /\ Values("page_size") = {last.input.page_size}

\* C12: a RecordingFile.save that writes a file writes it to the given path when
\* the path ends with "." and the extension in any letter case, and otherwise to
\* the path with "." and the lower-case extension appended.
C12_DestinationIsPathWithExtension ==
    (last.op = "RecordingFile.save" /\ last.wrote # <<>>) =>
        LET path == last.input.path
            suffix == <<".">> \o Lower(last.input.file_extension)
        IN  last.wrote = <<IF EndsWith(Lower(path), suffix) THEN path ELSE path \o suffix>>

\* The files of the recording the latest Recording.save was called on.
SavedRecordingFiles == held[last.input.recording].recording_files

\* C13: a Recording.save that returns has downloaded every file of the
\* recording once, in the order of recording_files, and has written them to
\* destinations that differ from one another, so that none of them is
\* overwritten by a later file of the recording.
C13_SaveAllKeepsEveryFile ==
    (last.op = "Recording.save" /\ ~Raised(last.result)) =>
        /\ Len(last.calls) = Len(SavedRecordingFiles)
        /\ \A i \in DOMAIN last.calls :
               last.calls[i].request.endpoint = SavedRecordingFiles[i].download_url
        /\ Len(last.wrote) = Len(SavedRecordingFiles)
        /\ \A i, j \in DOMAIN last.wrote : i # j => last.wrote[i] # last.wrote[j]

\* The payload the latest listing call parsed: the body of its last response.
ParsedPayload(calls) == calls[Len(calls)].response.json

\* strftime('%Y-%m-%dT%H:%M:%SZ') of a datetime, as its characters.
Padded(n, width) ==
    [k \in 1..width |->
        <<"0", "1", "2", "3", "4", "5", "6", "7", "8", "9">>
            [((n \div (IF k = width THEN 1 ELSE IF k = width - 1 THEN 10
                       ELSE IF k = width - 2 THEN 100 ELSE 1000)) % 10) + 1]]
Formatted(dt) ==
    Padded(dt.year, 4) \o <<"-">> \o Padded(dt.month, 2) \o <<"-">> \o Padded(dt.day, 2)
    \o <<"T">> \o Padded(dt.hour, 2) \o <<":">> \o Padded(dt.minute, 2)
    \o <<":">> \o Padded(dt.second, 2) \o <<"Z">>

\* The timestamp is in the fixed format YYYY-MM-DDTHH:MM:SSZ.
FixedFormat(ts) ==
    /\ Len(ts) = 20
    /\ ts[11] = "T"
    /\ ts[20] = "Z"
    /\ MatchesFormat(ts)

\* The object mirrors the JSON object: every key but the timestamps and the
\* nested files holds the JSON value, a timestamp in the fixed format is the
\* datetime that formats back to it, the back-reference is the session z.
Mirrors(object, js, timestamps, z) ==
    /\ DOMAIN object = DOMAIN js \cup {"zoom_instance"}
    /\ object.zoom_instance = z
    /\ \A key \in DOMAIN js \ (timestamps \cup {"recording_files"}) : object[key] = js[key]
    /\ \A key \in timestamps : FixedFormat(js[key]) => Formatted(object[key]) = js[key]

\* C14: the list get_recordings returns has one Recording per entry of meetings,
\* in input order, each with one RecordingFile per entry of recording_files, in
\* input order, every field holding the value of the JSON (a timestamp as the
\* datetime it denotes) and every object referring to the session that listed.
C14_ParsedTreeMirrorsPayload ==
    (/\ last.op = "get_recordings"
     /\ ~Raised(last.result)
     /\ "meetings" \in DOMAIN ParsedPayload(last.calls)) =>
        LET meetings == ParsedPayload(last.calls).meetings
            recordings == last.result.val
        IN  /\ Len(recordings) = Len(meetings)
            /\ \A i \in DOMAIN meetings :
                  /\ Mirrors(recordings[i], meetings[i], {"start_time"}, last.z)
                  /\ Len(recordings[i].recording_files) = Len(meetings[i].recording_files)
                  /\ \A j \in DOMAIN meetings[i].recording_files :
                        Mirrors(recordings[i].recording_files[j],
                                meetings[i].recording_files[j],
                                {"recording_start", "recording_end"}, last.z)

\* get_recordings returned the recordings of two meetings with two files each.
C14_Witness ==
    /\ last.op = "get_recordings"
    /\ ~Raised(last.result)
    /\ Len(last.result.val) = 2
    /\ \A i \in 1..2 : Len(last.result.val[i].recording_files) = 2
    /\ last.result.val[1].recording_files[1].id # last.result.val[1].recording_files[2].id

\* The timestamps of a listing payload: start_time of every meeting,
\* recording_start and recording_end of every file.
TimestampsOf(js) ==
    IF "meetings" \notin DOMAIN js THEN {}
    ELSE UNION {
           {js.meetings[i].start_time}
           \cup UNION {{js.meetings[i].recording_files[j].recording_start,
                        js.meetings[i].recording_files[j].recording_end} :
                         j \in DOMAIN js.meetings[i].recording_files}
           : i \in DOMAIN js.meetings }

\* The latest get_recordings got a JSON payload.
ParsedListing(l) ==
    /\ l.op = "get_recordings"
    /\ l.calls # <<>>
    /\ l.calls[Len(l.calls)].response.delivered
    /\ l.calls[Len(l.calls)].response.is_json

\* C15 as stated: a get_recordings whose payload holds a timestamp that is not
\* in the fixed format YYYY-MM-DDTHH:MM:SSZ raises.
C15_NonConformingTimestampFails ==
    (/\ ParsedListing(last)
     /\ \E ts \in TimestampsOf(ParsedPayload(last.calls)) : ~FixedFormat(ts)) =>
        Raised(last.result)

\* One step of C15, on the call the step makes.
C15_Step ==
    (/\ ParsedListing(last')
     /\ \E ts \in TimestampsOf(ParsedPayload(last'.calls)) : ~MatchesFormat(ts)) =>
        /\ last'.result = Raise("ValueError")
        /\ held' = held

\* C15, amended: a get_recordings whose payload holds a timestamp that
\* strptime('%Y-%m-%dT%H:%M:%SZ') does not accept raises ValueError: it returns
\* no list, not even of the meetings before the faulty one, and the caller keeps
\* what it held.
C15_RejectedTimestampFails == [][C15_Step]_vars

\* A caller that holds recordings listed again, the second meeting of the payload
\* had a file with fractional seconds, and the call raised.
C15_Witness ==
    /\ ParsedListing(last)
    /\ last.result = Raise("ValueError")
    /\ Len(ParsedPayload(last.calls).meetings) = 2
    /\ \A ts \in TimestampsOf([meetings |-> <<ParsedPayload(last.calls).meetings[1]>>]) :
          MatchesFormat(ts)
    /\ held # <<>>

\* One step of C16, on the call the step makes.
C16_Step ==
    last'.op = "get_oauth_url" =>
        /\ last'.calls = <<>>
        /\ UNCHANGED <<credentials, access_token, refresh_token, held, fs>>
        /\ last'.result =
              Return("str", Url("https://zoom.us/oauth/authorize",
                                <<<<"response_type", "code">>,
                                  <<"redirect_uri", credentials[last'.z].oauth_redirect_uri>>,
                                  <<"client_id", credentials[last'.z].client_id>>,
                                  <<"state", "">>>>))

\* C16: get_oauth_url sends no request and changes neither the tokens nor the
\* credentials of the session, and the URL it returns is the authorize URL with
\* response_type=code, the session's redirect_uri and client_id, and an empty
\* state, whatever tokens the session holds.
C16_AuthorizationUrlIsPure == [][C16_Step]_vars

\* A session that holds a token pair built its authorization URL.
C16_Witness ==
    /\ last.op = "get_oauth_url"
    /\ access_token[last.z] # ""
    /\ refresh_token[last.z] # ""

\* The token pairs the token endpoint hands out in one response.
PairsGranted ==
    {<<response.json.access_token, response.json.refresh_token>> :
        response \in {r \in TokenResponses : CompletePair(r)}}

\* One step of C17, on the call the step makes.
C17_Step ==
    /\ \A z \in Sessions :
          <<access_token'[z], refresh_token'[z]>> \in {<<"", "">>} \cup PairsGranted
    /\ (last'.op = "refresh_access_token" /\ last'.result = Return("bool", FALSE)) =>
          /\ access_token' = access_token
          /\ refresh_token' = refresh_token

\* C17: whatever the token endpoint answers, a call leaves every session with
\* the empty pair of a new session or with the pair of one HTTP 200 token
\* response, never with the access token of one response beside the refresh
\* token of another; and a refresh that returns False leaves the pair as it was.
C17_TokenPairFromOneResponse == [][C17_Step]_vars

SaveOps == {"RecordingFile.save", "Recording.save"}

\* The download host refused a download of the call.
DownloadRefused(calls) ==
    \E i \in DOMAIN calls :
        calls[i].response.delivered /\ calls[i].response.status_code >= 400

\* One step of C18, on the call the step makes.
C18_Step ==
    last'.op \in SaveOps =>
        /\ \A i \in DOMAIN last'.calls :
              /\ IsDownload(last'.calls[i])
              /\ last'.calls[i].request.grant_type = ""
        /\ access_token' = access_token
        /\ refresh_token' = refresh_token
        /\ DownloadRefused(last'.calls) => last'.result = Raise("HTTPError")

\* C18: RecordingFile.save and Recording.save send download requests only, never
\* a refresh, and leave the token pair of the session as it was; a download the
\* host refuses because the token has expired since the listing ends the call
\* with an error.
C18_SaveNeverRefreshes == [][C18_Step]_vars

\* A session listed with the token it still holds, and the download was refused.
C18_Witness ==
    /\ last.op \in SaveOps
    /\ DownloadRefused(last.calls)
    /\ last.result = Raise("HTTPError")
    /\ access_token[last.z] # ""
    /\ refresh_token[last.z] # ""
    /\ listed_with = access_token[last.z]

\* One step of C19, on the call the step makes.
C19_Step ==
    last'.op = "RecordingFile.save" =>
        /\ DownloadRefused(last'.calls) =>
              /\ last'.result = Raise("HTTPError")
              /\ last'.wrote = <<>>
              /\ fs' = fs
        /\ (last'.wrote # <<>> \/ fs' # fs) =>
              /\ last'.calls[1].response.delivered
              /\ last'.calls[1].response.status_code < 400

\* C19: a RecordingFile.save whose download is answered with a failure status
\* raises the HTTP error without opening the destination: the local files are
\* what they were, a file at the destination keeps its content and none is
\* created; the destination is written only after a status of success.
C19_RefusedDownloadKeepsFiles == [][C19_Step]_vars

\* The download of a file whose destination holds an older file was refused,
\* and the older file is still there.
C19_Witness ==
    /\ last.op = "RecordingFile.save"
    /\ DownloadRefused(last.calls)
    /\ LET dest == last.input.path \o <<".">> \o Lower(last.input.file_extension)
       IN  dest \in DOMAIN fs /\ fs[dest] = <<"old">>

\* One step of C20, on the call the step makes.
C20_Step ==
    /\ credentials' = credentials
    /\ \A z \in Sessions \ {last'.z} :
          /\ access_token'[z] = access_token[z]
          /\ refresh_token'[z] = refresh_token[z]

\* C20: a code exchange, refresh, listing or download of one Zoom instance
\* leaves the access_token and refresh_token of every other instance as they
\* were, and no call changes the client_id, client_secret or oauth_redirect_uri
\* an instance was constructed with.
C20_SessionsAreSeparate == [][C20_Step]_vars

\* Two sessions hold different token pairs, and the latest call was a granted
\* refresh of the second.
C20_Witness ==
    /\ last.op = "refresh_access_token"
    /\ last.z = "z2"
    /\ last.result = Return("bool", TRUE)
    /\ access_token["z1"] = "a1"
    /\ refresh_token["z1"] = "r1"
    /\ access_token["z2"] = "a2"
    /\ credentials = ConstructorArgs

====
